---- MODULE Spec2Model ----
(***************************************************************************)
(* Model of package partial (viterin/partial): the Floyd-Rivest selection  *)
(* loop and its four entry points TopK, TopKFunc, Sort and SortFunc.       *)
(*                                                                         *)
(* The sources hold two definitions of Sort / SortFunc: the one next to    *)
(* the sort tests (clamp k = min(k, len), do nothing unless k > 0) and the *)
(* one at the end of topk.go (clamp k = min(max(k, 1), len), always run    *)
(* the selection).  Both are modelled, as Sort / SortFunc and as           *)
(* Sort_topk / SortFunc_topk.                                              *)
(*                                                                         *)
(* Slices are sequences; a Go index i is position i + 1 of the sequence.   *)
(* A read or write at an index outside [0, len-1] is a run-time panic and  *)
(* is modelled by the control state "panic".                               *)
(***************************************************************************)
EXTENDS Integers, Sequences, FiniteSets, TLC

\* ---------------------------------------------------------------- bounds
MaxLen == 3       \* longest slice explored
MaxVal == 2       \* elements are 0..MaxVal
KSlack == 1       \* k ranges over -KSlack .. MaxLen + KSlack

\* the window size above which floydRivest samples recursively
SampleThreshold == 600

Elems == 0..MaxVal
KRange == (0 - KSlack)..(MaxLen + KSlack)

RECURSIVE SeqsUpTo(_)
SeqsUpTo(n) ==
    IF n = 0 THEN {<<>>}
    ELSE LET shorter == SeqsUpTo(n - 1)
         IN shorter \cup {Append(s, e) : s \in {q \in shorter : Len(q) = n - 1}, e \in Elems}

Inputs == SeqsUpTo(MaxLen)

\* ------------------------------------------------------------- orderings
\* "native" is the < of constraints.Ordered; "byAge" compares a key only, so
\* that distinct elements can be order-equivalent (person.age in the tests);
\* "desc" is the descending order of the README example.
LessFns == {"byAge", "desc"}

Key(a) == a \div 2

less(f, a, b) ==
    CASE f = "native" -> a < b
      [] f = "byAge"  -> Key(a) < Key(b)
      [] f = "desc"   -> a > b

GenericOps == {"TopK", "Sort", "Sort_topk"}
FuncOps == {"TopKFunc", "SortFunc", "SortFunc_topk"}
TopKOps == {"TopK", "TopKFunc"}
SortOps == {"Sort", "SortFunc"}
SortTopkOps == {"Sort_topk", "SortFunc_topk"}
Ops == GenericOps \cup FuncOps

min(a, b) == IF a < b THEN a ELSE b

max(a, b) == IF a > b THEN a ELSE b

\* ----------------------------------------------------------- slice access
InRange(s, idx) == 0 <= idx /\ idx < Len(s)

At(s, idx) == s[idx + 1]

\* a swap that loses the element at a
Swap_Overwrite(s, a, b) == [s EXCEPT ![a + 1] = s[b + 1]]

Swap(s, a, b) == [s EXCEPT ![a + 1] = s[b + 1], ![b + 1] = s[a + 1]]

Prefix(s, n) == SubSeq(s, 1, n)

Suffix(s, n) == SubSeq(s, n + 1, Len(s))

\* slices.Sort / slices.SortFunc on a short slice: insertion sort
RECURSIVE InsertInto(_, _, _)
InsertInto(s, v, f) ==
    IF s = <<>> \/ ~less(f, v, s[Len(s)])
    THEN Append(s, v)
    ELSE Append(InsertInto(SubSeq(s, 1, Len(s) - 1), v, f), s[Len(s)])

RECURSIVE SlicesSort(_, _)
SlicesSort(s, f) ==
    IF s = <<>> THEN <<>>
    ELSE InsertInto(SlicesSort(SubSeq(s, 1, Len(s) - 1), f), s[Len(s)], f)

\* ------------------------------------------------------------------ state
VARIABLES
    x,       \* the caller's slice
    x0,      \* its contents at the call
    op,      \* the entry point called
    fn,      \* the ordering: "native" for TopK / Sort, the less argument otherwise
    karg,    \* k as passed by the caller
    kw,      \* k of the entry point after clamping
    left, right, k,   \* parameters of floydRivest
    length, t, i, j,  \* locals of floydRivest
    pc       \* control state

vars == <<x, x0, op, fn, karg, kw, left, right, k, length, t, i, j, pc>>

Init ==
    /\ x0 \in Inputs
    /\ x = x0
    /\ op \in Ops
    /\ fn \in (IF op \in GenericOps THEN {"native"} ELSE LessFns)
    /\ karg \in KRange
    /\ kw = karg
    /\ left = 0 /\ right = 0 /\ k = 0
    /\ length = 0 /\ t = 0 /\ i = 0 /\ j = 0
    /\ pc = "call"

\* comparisons of floydRivest (<, ==) and of floydRivestFunc (less)
Lt(a, b) == IF op \in GenericOps THEN a < b ELSE less(fn, a, b)

Equiv(a, b) == IF op \in GenericOps THEN a = b ELSE ~(less(fn, a, b) \/ less(fn, b, a))

Panic ==
    /\ pc' = "panic"
    /\ UNCHANGED <<x, x0, op, fn, karg, kw, left, right, k, length, t, i, j>>

\* ----------------------------------------------------------- entry points
Enter(kk) ==
    /\ kw' = kk
    /\ left' = 0
    /\ right' = Len(x) - 1
    /\ k' = kk - 1
    /\ length' = Len(x)
    /\ pc' = "loop"
    /\ UNCHANGED <<x, x0, op, fn, karg, t, i, j>>

Skip(kk) ==
    /\ kw' = kk
    /\ pc' = "done"
    /\ UNCHANGED <<x, x0, op, fn, karg, left, right, k, length, t, i, j>>

\* the clamp of the other Sort: a k below 1 raised to 1
ClampTopK_AtLeastOne(kk, n) == min(max(kk, 1), n)

ClampTopK(kk, n) == min(kk, n)

TopK ==
    /\ pc = "call" /\ op = "TopK"
    /\ LET kk == ClampTopK(karg, Len(x))
       IN IF kk > 0 THEN Enter(kk) ELSE Skip(kk)

TopKFunc ==
    /\ pc = "call" /\ op = "TopKFunc"
    /\ LET kk == ClampTopK(karg, Len(x))
       IN IF kk > 0 THEN Enter(kk) ELSE Skip(kk)

\* the clamp of the Sort in topk.go: a k below 1 raised to 1
ClampSort_AtLeastOne(kk, n) == min(max(kk, 1), n)

ClampSort(kk, n) == min(kk, n)

Sort ==
    /\ pc = "call" /\ op = "Sort"
    /\ LET kk == ClampSort(karg, Len(x))
       IN IF kk > 0 THEN Enter(kk) ELSE Skip(kk)

SortFunc ==
    /\ pc = "call" /\ op = "SortFunc"
    /\ LET kk == ClampSort(karg, Len(x))
       IN IF kk > 0 THEN Enter(kk) ELSE Skip(kk)

\* the clamp without its upper bound
ClampSort_topk_NoUpper(kk, n) == max(kk, 1)

ClampSort_topk(kk, n) == min(max(kk, 1), n)

Sort_topk ==
    /\ pc = "call" /\ op = "Sort_topk"
    /\ Enter(ClampSort_topk(karg, Len(x)))

SortFunc_topk ==
    /\ pc = "call" /\ op = "SortFunc_topk"
    /\ Enter(ClampSort_topk(karg, Len(x)))

\* ------------------------------------------- floydRivest / floydRivestFunc
\* for right > left; the sampling recursion needs a window of more than
\* SampleThreshold elements
LoopTest ==
    /\ pc = "loop"
    /\ IF right > left
       THEN /\ ~(right - left > SampleThreshold)
            /\ pc' = "partition"
       ELSE pc' = "return"
    /\ UNCHANGED <<x, x0, op, fn, karg, kw, left, right, k, length, t, i, j>>

\* the comparison turned around
EndsOutOfOrder_Reversed(tt, s, r) == Lt(At(s, r), tt)

\* if t < x[right]
EndsOutOfOrder(tt, s, r) == Lt(tt, At(s, r))

\* t = x[k]; i = left; j = right; move the pivot to left; swap the ends if t < x[right]
Partition ==
    /\ pc = "partition"
    /\ IF InRange(x, k) /\ InRange(x, left) /\ InRange(x, right)
       THEN LET tt == At(x, k)
                x1 == Swap(x, left, k)
            IN /\ t' = tt
               /\ i' = left
               /\ j' = right
               /\ x' = IF EndsOutOfOrder(tt, x1, right) THEN Swap(x1, left, right) ELSE x1
               /\ pc' = "outer"
               /\ UNCHANGED <<x0, op, fn, karg, kw, left, right, k, length>>
       ELSE Panic

\* for i < j: swap x[i], x[j]; i++; j--
Outer ==
    /\ pc = "outer"
    /\ IF i < j
       THEN IF InRange(x, i) /\ InRange(x, j)
            THEN /\ x' = Swap(x, i, j)
                 /\ i' = i + 1
                 /\ j' = j - 1
                 /\ pc' = "scanI"
                 /\ UNCHANGED <<x0, op, fn, karg, kw, left, right, k, length, t>>
            ELSE Panic
       ELSE /\ pc' = "place"
            /\ UNCHANGED <<x, x0, op, fn, karg, kw, left, right, k, length, t, i, j>>

\* for i < length && x[i] < t { i++ }
ScanI ==
    /\ pc = "scanI"
    /\ IF i < length
       THEN IF InRange(x, i)
            THEN IF Lt(At(x, i), t)
                 THEN /\ i' = i + 1
                      /\ UNCHANGED <<x, x0, op, fn, karg, kw, left, right, k, length, t, j, pc>>
                 ELSE /\ pc' = "scanJ"
                      /\ UNCHANGED <<x, x0, op, fn, karg, kw, left, right, k, length, t, i, j>>
            ELSE Panic
       ELSE /\ pc' = "scanJ"
            /\ UNCHANGED <<x, x0, op, fn, karg, kw, left, right, k, length, t, i, j>>

\* for j >= 0 && t < x[j] { j-- }
ScanJ ==
    /\ pc = "scanJ"
    /\ IF j >= 0
       THEN IF InRange(x, j)
            THEN IF Lt(t, At(x, j))
                 THEN /\ j' = j - 1
                      /\ UNCHANGED <<x, x0, op, fn, karg, kw, left, right, k, length, t, i, pc>>
                 ELSE /\ pc' = "outer"
                      /\ UNCHANGED <<x, x0, op, fn, karg, kw, left, right, k, length, t, i, j>>
            ELSE Panic
       ELSE /\ pc' = "outer"
            /\ UNCHANGED <<x, x0, op, fn, karg, kw, left, right, k, length, t, i, j>>

\* the test made against the other end of the window
PivotAtLeft_OtherEnd(s, l, r, tt) == Equiv(At(s, r), tt)

\* if x[left] == t
PivotAtLeft(s, l, r, tt) == Equiv(At(s, l), tt)

\* if x[left] == t: swap x[left], x[j]; else: j++; swap x[j], x[right]
Place ==
    /\ pc = "place"
    /\ IF InRange(x, left)
       THEN IF PivotAtLeft(x, left, right, t)
            THEN IF InRange(x, j)
                 THEN /\ x' = Swap(x, left, j)
                      /\ pc' = "narrow"
                      /\ UNCHANGED <<x0, op, fn, karg, kw, left, right, k, length, t, i, j>>
                 ELSE Panic
            ELSE IF InRange(x, j + 1) /\ InRange(x, right)
                 THEN /\ j' = j + 1
                      /\ x' = Swap(x, j + 1, right)
                      /\ pc' = "narrow"
                      /\ UNCHANGED <<x0, op, fn, karg, kw, left, right, k, length, t, i>>
                 ELSE Panic
       ELSE Panic

\* left = j instead of j + 1
NewLeft_NoStep(l, jj, kk) == IF jj <= kk THEN jj ELSE l

NewLeft(l, jj, kk) == IF jj <= kk THEN jj + 1 ELSE l

\* k < j instead of k <= j
NewRight_Strict(r, jj, kk) == IF kk < jj THEN jj - 1 ELSE r

NewRight(r, jj, kk) == IF kk <= jj THEN jj - 1 ELSE r

\* if j <= k { left = j + 1 }; if k <= j { right = j - 1 }
Narrow ==
    /\ pc = "narrow"
    /\ left' = NewLeft(left, j, k)
    /\ right' = NewRight(right, j, k)
    /\ pc' = "loop"
    /\ UNCHANGED <<x, x0, op, fn, karg, kw, k, length, t, i, j>>

\* a prefix one element short for both definitions of Sort
SortedLen_Short(o, kk) == kk - 2

\* the prefix handed to slices.Sort / slices.SortFunc after the selection
SortedLen(o, kk) == IF o \in SortOps THEN kk - 1 ELSE kk

\* floydRivest returns; Sort and SortFunc then sort the prefix
Return ==
    /\ pc = "return"
    /\ IF op \in TopKOps
       THEN /\ x' = x
            /\ pc' = "done"
       ELSE LET n == SortedLen(op, kw)
            IN IF 0 <= n /\ n <= Len(x)
               THEN /\ x' = SlicesSort(Prefix(x, n), fn) \o Suffix(x, n)
                    /\ pc' = "done"
               ELSE /\ x' = x
                    /\ pc' = "panic"
    /\ UNCHANGED <<x0, op, fn, karg, kw, left, right, k, length, t, i, j>>

Next ==
    \/ TopK
    \/ TopKFunc
    \/ Sort
    \/ SortFunc
    \/ Sort_topk
    \/ SortFunc_topk
    \/ LoopTest
    \/ Partition
    \/ Outer
    \/ ScanI
    \/ ScanJ
    \/ Place
    \/ Narrow
    \/ Return

Spec == Init /\ [][Next]_vars

\* the call runs on one goroutine and is never suspended
FairSpec == Spec /\ WF_vars(Next)

\* -------------------------------------------------------------- vocabulary
Count(s, v) == Cardinality({p \in DOMAIN s : s[p] = v})

SameMultiset(a, b) == Len(a) = Len(b) /\ \A v \in Elems : Count(a, v) = Count(b, v)

SortedCopy == SlicesSort(x0, fn)

IsSorted(s, f) == \A p \in 1..(Len(s) - 1) : ~less(f, s[p + 1], s[p])

HasTie == \E p, q \in DOMAIN x0 : p # q /\ Equiv(x0[p], x0[q])

InRangeCall == 1 <= karg /\ karg <= Len(x0)

\* ------------------------------------------------------------------ claims

\* C1: after TopK(x, k) or TopKFunc(x, k, less) with 1 <= k <= len(x), x[k-1]
\* is order-equivalent to the element at index k-1 of a sorted copy of the
\* original x.
C1_KthElement ==
    (pc = "done" /\ op \in TopKOps /\ InRangeCall)
        => Equiv(At(x, karg - 1), At(SortedCopy, karg - 1))

C1_Witness ==
    /\ pc = "done" /\ op = "TopKFunc" /\ fn = "byAge"
    /\ x0 = <<2, 1, 0>> /\ karg = 2
    /\ x # x0
    /\ Equiv(At(x, 1), 0)

\* C2: after TopK / TopKFunc with 1 <= k <= len(x), no element before index
\* k-1 is greater than x[k-1] and no element from index k on is less than
\* x[k-1], ties with x[k-1] included.
C2_Partition ==
    (pc = "done" /\ op \in TopKOps /\ InRangeCall)
        => /\ \A a \in 0..(karg - 2) : ~Lt(At(x, karg - 1), At(x, a))
           /\ \A b \in karg..(Len(x) - 1) : ~Lt(At(x, b), At(x, karg - 1))

C2_Witness ==
    /\ pc = "done" /\ op \in TopKOps /\ InRangeCall
    /\ Len(x0) = MaxLen /\ karg = 2
    /\ x # x0
    /\ \E a \in 0..(Len(x) - 1) : a # karg - 1 /\ Equiv(At(x, a), At(x, karg - 1))
    /\ \E b \in karg..(Len(x) - 1) : Lt(At(x, karg - 1), At(x, b))

\* C3: every entry point only permutes x: in every state of a call, after
\* each swap of the selection loop as well as at the end, x holds the same
\* multiset of elements as at the call and has the same length.
C3_Permutation == SameMultiset(x, x0)

C3_Witness ==
    /\ pc = "scanI" /\ x # x0
    /\ karg > Len(x0) /\ Len(x0) >= 3

\* C4: after Sort / SortFunc with 1 <= k <= len(x) the prefix x[0..k) is
\* sorted ascending under the ordering.
C4_PrefixSorted ==
    (pc = "done" /\ op \in SortOps \cup SortTopkOps /\ InRangeCall)
        => IsSorted(Prefix(x, karg), fn)

C4_Witness ==
    /\ pc = "done" /\ op \in SortOps /\ InRangeCall
    /\ karg = 2 /\ Len(x0) = MaxLen
    /\ ~IsSorted(Prefix(x0, karg), fn)
    /\ x # SortedCopy

\* C5: for every x, the empty one included, and every k, no entry point
\* panics: every index used is within [0, len(x)-1] and every slice bound
\* within [0, len(x)]; on an empty x the call changes nothing.
C5_NoPanic ==
    /\ pc # "panic"
    /\ (pc \in {"partition", "place"}) => (InRange(x, left) /\ InRange(x, right) /\ InRange(x, k))
    /\ Len(x0) = 0 => x = x0

C5_Witness ==
    /\ pc = "scanI" /\ i = length - 1
    /\ karg > Len(x0) /\ op \in SortTopkOps

\* C6: TopK / TopKFunc with k <= 0 leave every position of x as it was.
C6_TopKNonPositive ==
    (pc = "done" /\ op \in TopKOps /\ karg <= 0) => x = x0

C6_Witness ==
    /\ pc = "done" /\ op \in TopKOps /\ karg < 0
    /\ Len(x0) >= 2 /\ ~IsSorted(x0, fn)

\* C7: Sort / SortFunc with a negative k sort nothing: x is left unchanged
\* position by position.
C7_SortNegative ==
    (pc = "done" /\ op \in SortOps \cup SortTopkOps /\ karg < 0) => x = x0

\* C8 as stated: Sort / SortFunc clamp k to [1, n], so that for n >= 1 and
\* k <= 0 no element of x is less than x[0] afterwards.
C8_ClampToOne ==
    (pc = "done" /\ op \in SortOps \cup SortTopkOps /\ karg <= 0 /\ Len(x0) >= 1)
        => \A a \in 0..(Len(x) - 1) : ~Lt(At(x, a), At(x, 0))

\* C8 as amended: only the Sort / SortFunc defined in topk.go clamp k to
\* [1, n] and leave a minimum at x[0] for k <= 0; the Sort / SortFunc that
\* guard the selection with k > 0 clamp k to [0, n] and leave x unchanged.
C8_ClampByDefinition ==
    (pc = "done" /\ karg <= 0 /\ Len(x0) >= 1)
        => /\ op \in SortTopkOps =>
                /\ kw = 1
                /\ \A a \in 0..(Len(x) - 1) : ~Lt(At(x, a), At(x, 0))
           /\ op \in SortOps => (kw = min(karg, Len(x0)) /\ x = x0)

C8_Witness ==
    /\ pc = "done" /\ op \in SortTopkOps /\ karg <= 0
    /\ Len(x0) >= 2 /\ x # x0
    /\ Lt(At(x, 0), At(x0, 0))

\* C9: with k >= len(x) every entry point works on the whole of x: Sort /
\* SortFunc leave x equal to its sorted copy (position by position equal for
\* Sort, order-equivalent and a sorted permutation for SortFunc), and TopK /
\* TopKFunc leave a maximum of x in the last position.
C9_OversizedK ==
    (pc = "done" /\ karg >= Len(x0))
        => /\ kw = Len(x0)
           /\ op \in {"Sort", "Sort_topk"} => x = SortedCopy
           /\ op \in {"SortFunc", "SortFunc_topk"} =>
                /\ IsSorted(x, fn)
                /\ SameMultiset(x, x0)
                /\ \A a \in 0..(Len(x) - 1) : Equiv(At(x, a), At(SortedCopy, a))
           /\ (op \in TopKOps /\ Len(x0) >= 1) =>
                \A a \in 0..(Len(x) - 1) : ~Lt(At(x, Len(x) - 1), At(x, a))

C9_Witness ==
    /\ pc = "done" /\ karg > Len(x0) /\ Len(x0) >= 3
    /\ op \in {"SortFunc", "SortFunc_topk", "TopK"}
    /\ x # x0
    /\ ~IsSorted(x0, fn)

\* C10: the selection terminates, ties with the pivot included: every pass
\* of the partition loop strictly shrinks the window (left increases or right
\* decreases), the scans stop, and the call reaches its end.
C10_Terminates ==
    /\ [][pc = "narrow" => (left' > left \/ right' < right)]_vars
    /\ <>(pc = "done")

C10_Witness ==
    /\ pc = "narrow"
    /\ left > 0
    /\ Cardinality({a \in 0..(Len(x) - 1) : Equiv(At(x, a), t)}) >= 2

\* the states of a floydRivest / floydRivestFunc call, from its entry to the
\* exit of its loop
InSelection == pc \in {"loop", "partition", "outer", "scanI", "scanJ", "place", "narrow", "return"}

\* the states inside one pass of the loop body
InPass == pc \in {"partition", "outer", "scanI", "scanJ", "place", "narrow"}

Monotone == [][InSelection => (left' >= left /\ right' <= right)]_vars

\* C11 as stated: in every state of a selection call on a slice of length n,
\* from entry to loop exit, 0 <= left <= right <= n-1, and left never
\* decreases and right never increases.
C11_WorkingRange ==
    /\ [](InSelection => (0 <= left /\ left <= right /\ right <= length - 1))
    /\ Monotone

\* C11 as amended: in every state of a selection call with target index k,
\* 0 <= left <= k+1 and k-1 <= right <= n-1 (so left may pass right, by at
\* most 2, when the loop is left, and the window of an empty slice is
\* [0, -1]); inside a pass of the loop 0 <= left <= k <= right <= n-1 and
\* left < right; left never decreases and right never increases.
C11_WorkingRangeAmended ==
    /\ [](InSelection =>
            /\ 0 <= left /\ left <= k + 1
            /\ k - 1 <= right /\ right <= length - 1)
    /\ [](InPass => (left <= k /\ k <= right /\ left < right))
    /\ Monotone

C11_Witness ==
    /\ pc = "return" /\ op \in TopKOps
    /\ left = right + 2
    /\ left > 1 /\ right < length - 2
====
